---- MODULE Spec2Model ----
(***************************************************************************)
(* Model of the headcounts data pipeline:                                  *)
(*   - update_data_table.main : the upsert merge of a new scrape table     *)
(*     into the canonical archive (CSV), its backup, the analytical        *)
(*     (parquet) table and the semester list;                              *)
(*   - scrape.py __main__     : the collector's per-source loop.           *)
(* A table is a sequence of rows; a row is a function from column names    *)
(* to cell values.  A missing string cell is the value Null.               *)
(***************************************************************************)
EXTENDS Integers, Sequences, FiniteSets, TLC

VARIABLES
    \* ---- update_data_table.main -------------------------------------
    pc,            \* position of the merge run
    archive,       \* rows of the file CSV_DATA
    backups,       \* backup files: timestamp of the file name -> rows
    parquet,       \* rows of the file PARQUET_DATA
    semesters,     \* SEMESTERS_LIST written to SEMESTER_PY
    now,           \* datetime.now(), in whole seconds
    current_df,    \* the archive as loaded by the run (line 56)
    new_df,        \* the new scrape table as loaded by the run (line 66-69)
    result_df,     \* the merged, normalised table (line 137-167)
    backup_file,   \* timestamp in the backup file name of the run
    prev_new,      \* scrape table applied by the previous run that wrote CSV_DATA
    rows_read,     \* rows of the distinct new-data files read so far (bounds the model)
    \* ---- scrape.py __main__ ------------------------------------------
    spc,           \* position of the collector run
    site,          \* the remote site: what each listing and detail request meets
    broadcasts,    \* whether the installed polars broadcasts a Series of length 1
    source_list,   \* the subjects of the term (line 480)
    done_sources,  \* number of sources the loop of line 523 has gone through
    bads,          \* line 519
    temp_paths,    \* line 518
    checkpoints,   \* the files <source>.csv of the destination folder: name -> file
    composite_df,  \* line 500
    all_enrollments, \* all_enrollments.csv: <<>> while not written, else <<file>>
    args,          \* the command line: args.year_term, args.cid_list (line 456)
    from_disk,     \* line 642: <<>> while not read, else <<rows>>
    summary,       \* what line 633-635 printed: <<>> before, else <<counts>>
    events,        \* the requests sent and the files and folders written, in order
    \* ---- app.py ----------------------------------------------------
    wpc,           \* position of the web request
    table,         \* the analytical table the view reads (app.py line 111)
    form,          \* the posted search form: <<>> or <<form>>
    url,           \* the path of the request
    response       \* the rows filtered_view renders

mvars == <<pc, archive, backups, parquet, semesters, now, current_df,
           new_df, result_df, backup_file, prev_new, rows_read>>

svars == <<spc, site, broadcasts, source_list, done_sources, bads, temp_paths,
           checkpoints, composite_df, all_enrollments, args, from_disk, summary, events>>

wvars == <<wpc, table, form, url, response>>

vars == <<mvars, svars, wvars>>

-----------------------------------------------------------------------------
(* Bounds of the model *)

\* total number of rows in the distinct new-data files of one behaviour
MaxScraped == 2

\* a run starts only while the archive has at most this many rows
MaxRows == 2

\* number of seconds the clock can advance
MaxClock == 1

-----------------------------------------------------------------------------
(* Strings and sequences *)

Null == "<null>"

Range(s) == {s[i] : i \in 1..Len(s)}

Count(s, x) == Cardinality({i \in 1..Len(s) : s[i] = x})

\* the two tables hold the same rows, each the same number of times
SameRows(s, t) ==
    /\ Len(s) = Len(t)
    /\ \A x \in Range(s) \cup Range(t) : Count(s, x) = Count(t, x)

RECURSIVE Flatten(_)
Flatten(ss) == IF ss = <<>> THEN <<>> ELSE Head(ss) \o Flatten(Tail(ss))

UpperCase == "ABCDEFGHIJKLMNOPQRSTUVWXYZ"
LowerCase == "abcdefghijklmnopqrstuvwxyz"

\* str.to_lowercase() on one character
LowerChar(c) ==
    IF \E i \in 1..Len(UpperCase) : SubSeq(UpperCase, i, i) = c
    THEN LET i == CHOOSE j \in 1..Len(UpperCase) : SubSeq(UpperCase, j, j) = c
         IN  SubSeq(LowerCase, i, i)
    ELSE c

RECURSIVE to_lowercase(_)
to_lowercase(s) ==
    IF Len(s) = 0 THEN s
    ELSE LowerChar(SubSeq(s, 1, 1)) \o to_lowercase(SubSeq(s, 2, Len(s)))

\* str.replace_all(pat, '') for a literal pattern: leftmost, non-overlapping
RECURSIVE remove_all(_, _)
remove_all(s, pat) ==
    IF Len(s) < Len(pat) THEN s
    ELSE IF SubSeq(s, 1, Len(pat)) = pat
         THEN remove_all(SubSeq(s, Len(pat) + 1, Len(s)), pat)
         ELSE SubSeq(s, 1, 1) \o remove_all(SubSeq(s, 2, Len(s)), pat)

-----------------------------------------------------------------------------
(* Rows *)

\* composite key of a row of the archive or of the scrape table
Key(r) == <<r["year_term"], r["ID #"], r["Subj"], r["#"]>>

Keys(df) == {Key(df[i]) : i \in 1..Len(df)}

KeyUnique(df) == \A i, j \in 1..Len(df) : Key(df[i]) = Key(df[j]) => i = j

RowsOf(df, k) == SelectSeq(df, LAMBDA r : Key(r) = k)

\* a row of a scrape output file all_enrollments.csv (columns of DESIRED_ORDER
\* the merge reads or rewrites)
ScrapeRow(yt, id, subj, num, enr, loc, dm, tu) ==
    [c \in {"year_term", "ID #", "Subj", "#", "Enrolled:", "Loc",
            "Delivery Method", "Tuition -resident"} |->
        CASE c = "year_term" -> yt
          [] c = "ID #" -> id
          [] c = "Subj" -> subj
          [] c = "#" -> num
          [] c = "Enrolled:" -> enr
          [] c = "Loc" -> loc
          [] c = "Delivery Method" -> dm
          [] c = "Tuition -resident" -> tu]

ScrapeRows ==
    { ScrapeRow(20243, 12, "PHYS", "101", 10, "BR 102", Null, "$1,234.00"),
      ScrapeRow(20243, 12, "PHYS", "101", 25, "zzHA 7", "Online", "N/A"),
      ScrapeRow(20245, 7, "AST", "104L", 10, "BR 102", Null, "$1,234.00"),
      ScrapeRow(20245, 7, "AST", "104L", 25, "zzHA 7", "Online", Null),
      ScrapeRow(20245, 7, "AST", "104L", 0, "BR 102", "Online", "TBA"),
      ScrapeRow(20241, 7, "AST", "104L", 10, "BR 102", "Online", "$1,234.00") }

RECURSIVE SeqsUpTo(_, _)
SeqsUpTo(S, n) ==
    IF n = 0 THEN {<<>>}
    ELSE LET shorter == SeqsUpTo(S, n - 1)
         IN  shorter \cup {Append(s, x) : s \in shorter, x \in S}

-----------------------------------------------------------------------------
(* update_data_table.py: the merge *)

\* new_df.rename({'Enrolled:': 'Enrolled', ...}) on one row (line 69)
rename(r) ==
    [c \in (DOMAIN r \ {"Enrolled:"}) \cup {"Enrolled"} |->
        IF c = "Enrolled" THEN r["Enrolled:"] ELSE r[c]]

\* the tables a new-data file can hold, after the rename of line 69
NewTables(n) == {[i \in 1..Len(t) |-> rename(t[i])] : t \in SeqsUpTo(ScrapeRows, n)}

\* the value of the 'index' column of one row (lines 47-50)
IndexValue(r) ==
    ToString(r["year_term"]) \o ToString(r["ID #"]) \o r["Subj"] \o r["#"]

add_index_col(df) == [i \in 1..Len(df) |-> df[i] @@ ("index" :> IndexValue(df[i]))]

\* the columns of the joined frame that come from the right frame
IsCurrentColumn(c) == c = "year_term_current"

drop_current(r) == [c \in {d \in DOMAIN r : ~IsCurrentColumn(d)} |-> r[c]]

\* the join of lines 83-84 written with how='inner': unmatched rows are lost
left_join_inner(new, current) ==
    Flatten([i \in 1..Len(new) |->
        LET hits == SelectSeq(current, LAMBDA c : c["index"] = new[i]["index"])
        IN  [j \in 1..Len(hits) |->
                new[i] @@ ("year_term_current" :> <<hits[j]["year_term"]>>)]])

\* new.join(current, on='index', how='left', suffix='_current') (lines 83-84).
\* Of the right frame's columns only year_term_current is read afterwards;
\* it is <<>> when no row of the right frame has the index, else <<value>>.
left_join(new, current) ==
    Flatten([i \in 1..Len(new) |->
        LET hits == SelectSeq(current, LAMBDA c : c["index"] = new[i]["index"])
        IN  IF hits = <<>>
            THEN << new[i] @@ ("year_term_current" :> <<>>) >>
            ELSE [j \in 1..Len(hits) |->
                    new[i] @@ ("year_term_current" :> <<hits[j]["year_term"]>>)]])

\* the filter of lines 112-114 written without the negation
rows_to_keep_matched(current, updated_indices) ==
    SelectSeq(current, LAMBDA r : r["index"] \in updated_indices)

\* current_df.filter(~pl.col('index').is_in(updated_indices)) (lines 112-114)
rows_to_keep(current, updated_indices) ==
    SelectSeq(current, LAMBDA r : r["index"] \notin updated_indices)

drop_index(r) == [c \in DOMAIN r \ {"index"} |-> r[c]]

\* lines 72-137: result_df before the normalisation of the money columns
merge_frames(current, new) ==
    LET new_ix == add_index_col(new)
        cur_ix == add_index_col(current)
        joined_df == left_join(new_ix, cur_ix)
        common_entries_df ==
            SelectSeq(joined_df, LAMBDA r : r["year_term_current"] # <<>>)
        data_to_append_df ==
            SelectSeq(joined_df, LAMBDA r : r["year_term_current"] = <<>>)
        updated_rows_df ==
            [i \in 1..Len(common_entries_df) |-> drop_current(common_entries_df[i])]
        updated_indices == {updated_rows_df[i]["index"] : i \in 1..Len(updated_rows_df)}
        updated_current ==
            IF common_entries_df # <<>>
            THEN rows_to_keep(cur_ix, updated_indices) \o updated_rows_df
            ELSE cur_ix
        new_rows_df ==
            [i \in 1..Len(data_to_append_df) |-> drop_current(data_to_append_df[i])]
        appended ==
            IF data_to_append_df # <<>>
            THEN updated_current \o new_rows_df
            ELSE updated_current
    IN  [i \in 1..Len(appended) |-> drop_index(appended[i])]

\* the money columns of last_cols (lines 141-144) the model carries
last_cols == {"Tuition -resident"}

\* lines 148-153 written with is_not_null(): every present cell becomes $0.00
fill_tuition_present(v) == IF v # Null THEN "$0.00" ELSE v

\* lines 148-161 on one cell: null, then any spelling of n/a, become $0.00
fill_tuition(v) ==
    LET filled == IF v = Null THEN "$0.00" ELSE v
    IN  IF to_lowercase(filled) = "n/a" THEN "$0.00" ELSE filled

\* lines 165-167 on one cell (a null cell stays null)
fix_loc(v) == IF v = Null THEN Null ELSE remove_all(v, "zz")

\* lines 139-167 on one row
normalize_row(r) ==
    [c \in DOMAIN r |->
        IF c \in last_cols THEN fill_tuition(r[c])
        ELSE IF c = "Loc" THEN fix_loc(r[c])
        ELSE r[c]]

normalize(df) == [i \in 1..Len(df) |-> normalize_row(df[i])]

\* the table main writes to CSV_DATA (line 170)
merged_archive(current, new) == normalize(merge_frames(current, new))

-----------------------------------------------------------------------------
(* update_data_table.py: the analytical (parquet) table *)

Digits == "0123456789"

IsDigit(c) == \E i \in 1..Len(Digits) : SubSeq(Digits, i, i) = c

DigitValue(c) == (CHOOSE i \in 1..Len(Digits) : SubSeq(Digits, i, i) = c) - 1

RECURSIVE StrToNat(_)
StrToNat(s) ==
    IF Len(s) = 0 THEN 0
    ELSE StrToNat(SubSeq(s, 1, Len(s) - 1)) * 10 + DigitValue(SubSeq(s, Len(s), Len(s)))

\* str.replace_all(r'[$,]', '') (line 191)
strip_money(s) == remove_all(remove_all(s, "$"), ",")

\* whether .cast(float) accepts the text: digits with at most one point
\* (signs, exponents, inf and nan do not occur in the model's money cells)
is_float(s) ==
    /\ s # Null
    /\ \A i \in 1..Len(s) : IsDigit(SubSeq(s, i, i)) \/ SubSeq(s, i, i) = "."
    /\ Cardinality({i \in 1..Len(s) : SubSeq(s, i, i) = "."}) <= 1
    /\ \E i \in 1..Len(s) : IsDigit(SubSeq(s, i, i))

\* a cast that keeps the whole part only
cast_float_truncating(s) ==
    LET dots == {i \in 1..Len(s) : SubSeq(s, i, i) = "."}
        dot == IF dots = {} THEN Len(s) + 1 ELSE CHOOSE i \in dots : TRUE
    IN  StrToNat(SubSeq(s, 1, dot - 1))

\* .cast(float) of a text is_float accepts; the number is kept in hundredths
cast_float(s) ==
    LET dots == {i \in 1..Len(s) : SubSeq(s, i, i) = "."}
        dot == IF dots = {} THEN Len(s) + 1 ELSE CHOOSE i \in dots : TRUE
        whole == SubSeq(s, 1, dot - 1)
        frac == SubSeq(SubSeq(s, dot + 1, Len(s)) \o "00", 1, 2)
    IN  StrToNat(whole) * 100 + StrToNat(frac)

\* term_map of line 222, replace_strict(term_map, default=None)
term_name(term_code) ==
    CASE term_code = 1 -> "Summer"
      [] term_code = 3 -> "Fall"
      [] term_code = 5 -> "Spring"
      [] OTHER -> Null

\* lines 211-233 with the fiscal year taken as the calendar year of every term
term_label_fiscal(year_term) ==
    LET text == ToString(year_term)
        fiscal_year == StrToNat(SubSeq(text, 1, 4))
        term_code == StrToNat(SubSeq(text, Len(text), Len(text)))
    IN  IF term_name(term_code) = Null THEN Null
        ELSE term_name(term_code) \o " " \o ToString(fiscal_year)

\* the Term column of one year_term (lines 211-233)
term_label(year_term) ==
    LET text == ToString(year_term)
        fiscal_year == StrToNat(SubSeq(text, 1, 4))
        term_code == StrToNat(SubSeq(text, Len(text), Len(text)))
        year == IF term_code = 5 THEN fiscal_year ELSE fiscal_year - 1
    IN  IF term_name(term_code) = Null THEN Null
        ELSE term_name(term_code) \o " " \o ToString(year)

\* the file Rubric2College.csv read at line 246 (columns Rubric, CollegeCode)
rubric2college_df ==
    << [Rubric |-> "PHYS", CollegeCode |-> "CSHE"],
       [Rubric |-> "BIOL", CollegeCode |-> "CSHE"] >>

\* the cast of line 191 raises on some money cell of the table
cast_raises(df) ==
    \E i \in 1..Len(df) : \E c \in last_cols : ~is_float(strip_money(df[i][c]))

\* lines 180-243 and 268-276 on one row: defaults, casts, Term, renamed columns
typed_row(r) ==
    [c \in {"Term", "Fiscal yrtr", "ID #", "Subj", "#", "Enrolled", "Loc",
            "Delivery Method", "Tuition Resident"} |->
        CASE c = "Term" -> term_label(r["year_term"])
          [] c = "Fiscal yrtr" -> r["year_term"]
          [] c = "Delivery Method" ->
                IF r[c] = Null THEN "On Campus" ELSE r[c]
          [] c = "Tuition Resident" -> cast_float(strip_money(r["Tuition -resident"]))
          [] OTHER -> r[c]]

\* the join of lines 250-255 written with how='inner'
join_college_inner(df, mapping) ==
    Flatten([i \in 1..Len(df) |->
        LET hits == SelectSeq(mapping, LAMBDA m : m.Rubric = df[i]["Subj"])
        IN  [j \in 1..Len(hits) |-> df[i] @@ ("College" :> hits[j].CollegeCode)]])

\* result_df.join(rubric2college_df, left_on='Subj', right_on='Rubric',
\* how='left') and the rename of CollegeCode to College (lines 250-256)
join_college(df, mapping) ==
    Flatten([i \in 1..Len(df) |->
        LET hits == SelectSeq(mapping, LAMBDA m : m.Rubric = df[i]["Subj"])
        IN  IF hits = <<>>
            THEN << df[i] @@ ("College" :> Null) >>
            ELSE [j \in 1..Len(hits) |-> df[i] @@ ("College" :> hits[j].CollegeCode)]])

\* the table main writes to PARQUET_DATA (line 279), when no cast raises
analytical(df) == join_college([i \in 1..Len(df) |-> typed_row(df[i])], rubric2college_df)

\* lines 286-289: the distinct (year_term, Term) pairs, latest term first
RECURSIVE sort_descending(_)
sort_descending(S) ==
    IF S = {} THEN <<>>
    ELSE LET top == CHOOSE x \in S : \A y \in S : y[1] <= x[1]
         IN  <<top>> \o sort_descending(S \ {top})

semesters_list(result_df_) ==
    sort_descending({<<result_df_[i]["Fiscal yrtr"], result_df_[i]["Term"]>> : i \in 1..Len(result_df_)})

-----------------------------------------------------------------------------
(* update_data_table.main as a state machine *)

\* the canonical archive before the first run: rows an earlier merge wrote
\* (money cells filled, no "zz" in Loc), one per composite key
InitArchives ==
    { << rename(ScrapeRow(20243, 12, "PHYS", "101", 10, "BR 102", Null, "$1,234.00")) >>,
      << rename(ScrapeRow(20243, 12, "PHYS", "101", 25, "HA 7", "Online", "$0.00")) >> }

MInit ==
    /\ pc = "idle"
    /\ archive \in InitArchives
    /\ parquet = analytical(archive)
    /\ semesters = semesters_list(parquet)
    /\ backups = <<>>
    /\ now = 0
    /\ current_df = <<>>
    /\ new_df = <<>>
    /\ result_df = <<>>
    /\ backup_file = 0
    /\ prev_new = <<>>
    /\ rows_read = 0

\* line 56
LoadCurrent ==
    /\ pc = "idle"
    /\ Len(archive) <= MaxRows
    /\ pc' = "loaded"
    /\ current_df' = archive
    /\ UNCHANGED <<svars, wvars>>
    /\ UNCHANGED <<archive, backups, parquet, semesters, now, new_df, result_df,
                   backup_file, prev_new, rows_read>>

\* lines 61-63 without the write of line 62: the name is made, no file is
WriteBackupSkipped ==
    /\ pc = "loaded"
    /\ pc' = "backed_up"
    /\ backup_file' = now
    /\ UNCHANGED <<svars, wvars>>
    /\ UNCHANGED <<archive, backups, parquet, semesters, now, current_df, new_df,
                   result_df, prev_new, rows_read>>

\* lines 61-62: the file name carries the second of the clock
WriteBackup ==
    /\ pc = "loaded"
    /\ pc' = "backed_up"
    /\ backup_file' = now
    /\ backups' = (now :> current_df) @@ backups
    /\ UNCHANGED <<svars, wvars>>
    /\ UNCHANGED <<archive, parquet, semesters, now, current_df, new_df,
                   result_df, prev_new, rows_read>>

\* line 62 raises (the backup directory is missing or not writable)
BackupFails ==
    /\ pc = "loaded"
    /\ pc' = "backup_failed"
    /\ UNCHANGED <<svars, wvars>>
    /\ UNCHANGED <<archive, backups, parquet, semesters, now, current_df, new_df,
                   result_df, backup_file, prev_new, rows_read>>

\* lines 66-69
LoadNew ==
    /\ pc = "backed_up"
    /\ \E t \in NewTables(MaxScraped - rows_read) :
          /\ new_df' = t
          /\ rows_read' = rows_read + Len(t)
    /\ pc' = "merging"
    /\ UNCHANGED <<svars, wvars>>
    /\ UNCHANGED <<archive, backups, parquet, semesters, now, current_df,
                   result_df, backup_file, prev_new>>

\* lines 66-69, given the new-data file of the previous run once more
ReloadNew ==
    /\ pc = "backed_up"
    /\ prev_new # <<>>
    /\ new_df' = prev_new[1]
    /\ pc' = "merging"
    /\ UNCHANGED <<svars, wvars>>
    /\ UNCHANGED <<archive, backups, parquet, semesters, now, current_df,
                   result_df, backup_file, prev_new, rows_read>>

\* line 66 raises (no such file, or a file without a header)
LoadNewFails ==
    /\ pc = "backed_up"
    /\ pc' = "load_failed"
    /\ UNCHANGED <<svars, wvars>>
    /\ UNCHANGED <<archive, backups, parquet, semesters, now, current_df, new_df,
                   result_df, backup_file, prev_new, rows_read>>

\* lines 72-167 without the write of line 170
MergeWithoutWrite ==
    /\ pc = "merging"
    /\ result_df' = merged_archive(current_df, new_df)
    /\ pc' = "csv_written"
    /\ UNCHANGED <<svars, wvars>>
    /\ UNCHANGED <<archive, backups, parquet, semesters, now, current_df, new_df,
                   backup_file, prev_new, rows_read>>

\* lines 72-170
MergeAndWriteCsv ==
    /\ pc = "merging"
    /\ result_df' = merged_archive(current_df, new_df)
    /\ archive' = result_df'
    /\ pc' = "csv_written"
    /\ UNCHANGED <<svars, wvars>>
    /\ UNCHANGED <<backups, parquet, semesters, now, current_df, new_df,
                   backup_file, prev_new, rows_read>>

\* lines 180-279 with a cast that drops the rows it cannot convert
WriteParquetLenient ==
    /\ pc = "csv_written"
    /\ parquet' = analytical(SelectSeq(result_df, LAMBDA r : ~cast_raises(<<r>>)))
    /\ pc' = "parquet_written"
    /\ UNCHANGED <<svars, wvars>>
    /\ UNCHANGED <<archive, backups, semesters, now, current_df, new_df,
                   result_df, backup_file, prev_new, rows_read>>

\* lines 180-279
WriteParquet ==
    /\ pc = "csv_written"
    /\ ~cast_raises(result_df)
    /\ parquet' = analytical(result_df)
    /\ pc' = "parquet_written"
    /\ UNCHANGED <<svars, wvars>>
    /\ UNCHANGED <<archive, backups, semesters, now, current_df, new_df,
                   result_df, backup_file, prev_new, rows_read>>

\* line 191 raises
ParquetFails ==
    /\ pc = "csv_written"
    /\ cast_raises(result_df)
    /\ pc' = "parquet_failed"
    /\ UNCHANGED <<svars, wvars>>
    /\ UNCHANGED <<archive, backups, parquet, semesters, now, current_df, new_df,
                   result_df, backup_file, prev_new, rows_read>>

\* lines 286-296
WriteSemesters ==
    /\ pc = "parquet_written"
    /\ semesters' = semesters_list(parquet)
    /\ pc' = "done"
    /\ UNCHANGED <<svars, wvars>>
    /\ UNCHANGED <<archive, backups, parquet, now, current_df, new_df,
                   result_df, backup_file, prev_new, rows_read>>

\* the positions in which CSV_DATA has been rewritten by the run
Written == {"csv_written", "parquet_written", "done", "parquet_failed"}

\* the process ends (lines 310-317, or the traceback of the exception)
Exit ==
    /\ pc \in {"done", "backup_failed", "load_failed", "parquet_failed"}
    /\ pc' = "idle"
    /\ prev_new' = IF pc \in Written THEN <<new_df>> ELSE prev_new
    /\ UNCHANGED <<svars, wvars>>
    /\ UNCHANGED <<archive, backups, parquet, semesters, now, current_df, new_df,
                   result_df, backup_file, rows_read>>

\* a second passes between two runs
Tick ==
    /\ pc = "idle"
    /\ now < MaxClock
    /\ now' = now + 1
    /\ UNCHANGED <<svars, wvars>>
    /\ UNCHANGED <<pc, archive, backups, parquet, semesters, current_df, new_df,
                   result_df, backup_file, prev_new, rows_read>>

Next ==
    \/ LoadCurrent
    \/ WriteBackup
    \/ BackupFails
    \/ LoadNew
    \/ ReloadNew
    \/ LoadNewFails
    \/ MergeAndWriteCsv
    \/ WriteParquet
    \/ ParquetFails
    \/ WriteSemesters
    \/ Exit
    \/ Tick

\* the web application at rest while merge or collector runs are made
WebAtRest ==
    /\ wpc = "idle"
    /\ table = <<>>
    /\ form = <<>>
    /\ url = ""
    /\ response = <<>>

\* the collector at rest while merge runs are made
ScrapeAtRest ==
    /\ spc = "start"
    /\ site = [listing |-> [sub \in {} |-> "rows"], detail |-> [c \in {} |-> "ok"]]
    /\ broadcasts = FALSE
    /\ source_list = <<>>
    /\ done_sources = 0
    /\ bads = <<>>
    /\ temp_paths = <<>>
    /\ checkpoints = <<>>
    /\ composite_df = <<>>
    /\ all_enrollments = <<>>
    /\ args = [year_term |-> Null, cid_list |-> Null]
    /\ from_disk = <<>>
    /\ summary = <<>>
    /\ events = <<>>

Init == MInit /\ ScrapeAtRest /\ WebAtRest

\* rows of a new-data file whose key cells are free text: the cells differ,
\* their concatenation does not
FreeTextRows ==
    { ScrapeRow(20243, 12, "PHYS", "101", 10, "BR 102", "Online", "$1,234.00"),
      ScrapeRow(20243, 12, "PHYS", "101", 25, "BR 102", "Online", "$1,234.00"),
      ScrapeRow(20243, 12, "PHY", "S101", 10, "BR 102", "Online", "$1,234.00"),
      ScrapeRow(20243, 12, "PHYS", "102", 10, "BR 102", "Online", "$1,234.00"),
      ScrapeRow(20245, 12, "PHYS", "101", 10, "BR 102", "Online", "$1,234.00") }

\* lines 66-69, for a new-data file of such rows
LoadFreeText ==
    /\ pc = "backed_up"
    /\ \E t \in SeqsUpTo(FreeTextRows, MaxScraped - rows_read) :
          /\ new_df' = [i \in 1..Len(t) |-> rename(t[i])]
          /\ rows_read' = rows_read + Len(t)
    /\ pc' = "merging"
    /\ UNCHANGED <<svars, wvars>>
    /\ UNCHANGED <<archive, backups, parquet, semesters, now, current_df,
                   result_df, backup_file, prev_new>>

\* merge runs over new-data files with free-text key cells
IndexNext ==
    \/ LoadCurrent
    \/ WriteBackup
    \/ LoadFreeText
    \/ MergeAndWriteCsv
    \/ WriteParquet
    \/ WriteSemesters
    \/ Exit
    \/ Tick

IndexSpec == Init /\ [][IndexNext]_vars

Spec == Init /\ [][Next]_vars

-----------------------------------------------------------------------------
(* Properties of the merge *)

\* the archive has been loaded by some run
RunLoaded == current_df # <<>>

LastRowOf(df, k) == RowsOf(df, k)[Len(RowsOf(df, k))]

\* C1: when the archive a run read has unique composite keys, the archive the
\* run writes has no two rows with the same composite key, whatever the new
\* scrape table is (repeated keys included).
KeyUniqueness ==
    (pc \in Written /\ KeyUnique(current_df)) => KeyUnique(archive)

\* C2: a run that is given the scrape table of the previous run writes the
\* archive it read: the same rows, none added or duplicated.
Idempotence ==
    (pc \in Written /\ prev_new = <<new_df>>) => SameRows(archive, current_df)

\* C3: when the archive read holds a row with key k and the scrape table holds
\* a row with key k, the archive written holds exactly one row for k and it
\* carries the scrape row's values.
UpdateSemantics ==
    pc \in Written =>
        \A i \in 1..Len(new_df) :
            Key(new_df[i]) \in Keys(current_df) =>
                RowsOf(archive, Key(new_df[i])) = <<normalize_row(new_df[i])>>

BackupHoldsPreRun ==
    /\ pc \in Written =>
          /\ backup_file \in DOMAIN backups
          /\ backups[backup_file] = current_df
    /\ (RunLoaded /\ archive # current_df) =>
          \E t \in DOMAIN backups : backups[t] = current_df
    /\ pc \in {"backup_failed", "loaded"} => archive = current_df

BackupFailureChangesNothing ==
    [][pc' = "backup_failed" => UNCHANGED <<archive, parquet, semesters>>]_vars

BackupPrecedesMutation == []BackupHoldsPreRun /\ BackupFailureChangesNothing

BackupWitness ==
    /\ pc = "idle"
    /\ RunLoaded
    /\ archive # current_df
    /\ Cardinality(DOMAIN backups) = 1

\* C7: when the scrape table holds two or more rows with one composite key,
\* the archive written holds exactly one row for that key, with the values of
\* the last such row.
TieBreakLastWins ==
    pc \in Written =>
        \A k \in Keys(new_df) :
            Len(RowsOf(new_df, k)) >= 2 =>
                RowsOf(archive, k) = <<normalize_row(LastRowOf(new_df, k))>>

\* C8: a run whose scrape table has no rows writes the archive it read, and
\* its backup holds the same rows.
EmptyScrape ==
    (pc \in Written /\ new_df = <<>>) =>
        /\ archive = current_df
        /\ backups[backup_file] = current_df

EmptyScrapeWitness ==
    /\ pc \in Written
    /\ new_df = <<>>
    /\ \E i \in 1..Len(current_df) : current_df[i]["Tuition -resident"] # "$0.00"

\* C9: when a run completes, the analytical table has one row per row of the
\* archive written, in the same order and with the same composite key; a row
\* whose rubric the mapping lacks is kept with a null College.
MappedRubrics == {rubric2college_df[i].Rubric : i \in 1..Len(rubric2college_df)}

AnalyticalKey(r) == <<r["Fiscal yrtr"], r["ID #"], r["Subj"], r["#"]>>

ArchiveAnalyticalConsistency ==
    pc = "done" =>
        /\ Len(parquet) = Len(archive)
        /\ \A i \in 1..Len(archive) :
              /\ i <= Len(parquet)
              /\ AnalyticalKey(parquet[i]) = Key(archive[i])
              /\ archive[i]["Subj"] \notin MappedRubrics => parquet[i]["College"] = Null

UnmappedRubricWitness ==
    /\ pc = "done"
    /\ \E i \in 1..Len(archive) : archive[i]["Subj"] \notin MappedRubrics
    /\ \E i \in 1..Len(archive) : archive[i]["Subj"] \in MappedRubrics

-----------------------------------------------------------------------------
(* scrape.py: the collector *)

SIZE_KEYS == {"Enrolled:", "Size:"}

TUITION_COURSE_KEYS == {"Tuition -resident", "Tuition -nonresident", "Approximate Course Fees"}

ONLINE_18 == "18online"

COURSE_LEVEL == "Course level"

\* lines 93-101
EXTRA_COLUMNS == {"LASC/WI", ONLINE_18, "Tuition unit", COURSE_LEVEL} \cup TUITION_COURSE_KEYS

\* lines 103-108
DESIRED_ORDER ==
    <<"ID #", "Subj", "#", "Sec", "Title", "Dates", "Days", "Time", "Size:", "Enrolled:",
      "Cr/Hr", "Status", "Instructor", "Delivery Method", "Book Cost", "Loc", "LASC/WI",
      "18online", "Tuition -resident", "Tuition unit", "Tuition -nonresident",
      "Course level", "Approximate Course Fees", "timestamp", "year_term">>

\* the headers of the results table (line 241): the columns of DESIRED_ORDER
\* that neither course_detail nor the loop adds
LISTING_COLUMNS ==
    Range(DESIRED_ORDER) \ (SIZE_KEYS \cup EXTRA_COLUMNS \cup {"timestamp", "year_term"})

\* the truth value Python gives an argument of argparse (lines 461, 464, 476, 482)
truthy(x) == x # Null /\ x # ""

\* the values of --year-term and of --cid-list on the command line
YearTermArgs == {Null, "20253", "20252"}

CidListArgs == {Null, "cids.csv"}

\* a variant of the check that only refuses a command line without either
\* argument
args_raise_neither == ~(truthy(args.year_term) \/ truthy(args.cid_list))

\* lines 461-466: both arguments, or none
args_raise == (truthy(args.year_term) /\ truthy(args.cid_list))
                 \/ ~(truthy(args.year_term) \/ truthy(args.cid_list))

\* line 530: the run goes by subject; otherwise (line 534) by (id, term) pair
TermMode == truthy(args.year_term)

\* the subjects the site offers for term 20253
SubjectList == <<"AST", "PHYS">>

\* get_subject_list (lines 140-145): the options of the subject box that carry
\* the term as their class; the site has such options for the terms it offers
get_subject_list(year_term) == IF year_term = "20253" THEN SubjectList ELSE <<>>

\* the course ids of the rows of each subject's listing page
ListedCourses == ("AST" :> <<"000007">>) @@ ("PHYS" :> <<"000012", "000013">>)

AllCourses == UNION {Range(ListedCourses[sub]) : sub \in DOMAIN ListedCourses}

SubjOf(an_id) == CHOOSE sub \in DOMAIN ListedCourses : an_id \in Range(ListedCourses[sub])

\* the rows of the file given as --cid-list, as pl.read_csv types them (line 483)
inp_data == <<[c \in {"ID #", "year_term"} |-> IF c = "ID #" THEN 7 ELSE 20253],
              [c \in {"ID #", "year_term"} |-> IF c = "ID #" THEN 12 ELSE 20255]>>

\* '{:06d}'.format
RECURSIVE zero_pad(_, _)
zero_pad(s, width) == IF Len(s) >= width THEN s ELSE zero_pad("0" \o s, width)

\* lines 484-487
cid_source_list ==
    [i \in 1..Len(inp_data) |->
        <<zero_pad(ToString(inp_data[i]["ID #"]), 6), ToString(inp_data[i]["year_term"])>>]

\* what a request for a subject's listing page meets:
\*   rows      the results table with the subject's rows
\*   no_rows   the results table without any row (line 265-267)
\*   no_table  a page without the results table: IndexError at line 230
\*   refused   requests.get raises (line 310)
ListingKinds == {"rows", "no_rows", "no_table", "refused"}

\* what a request for a course's detail page meets:
\*   ok            a page with every field
\*   system_error  the site's 'System Error' page (line 379)
\*   no_size       no 'Size:' element: int('') raises ValueError at line 408
\*   no_level      no 'Course Level' text: RuntimeError at line 437
\*   refused       requests.get raises (line 374)
DetailKinds == {"ok", "system_error", "no_size", "no_level", "refused"}

Sites ==
    [listing : [DOMAIN ListedCourses -> ListingKinds],
     detail : [AllCourses -> DetailKinds]]

\* class_list_for_subject raises IndexError, which line 547 catches
listing_index_error(subject) == site.listing[subject] = "no_table"

\* class_list_for_subject raises anything else, which nothing catches
listing_raises(subject) == site.listing[subject] = "refused"

\* a row of the results table
listing_row(an_id, subject) ==
    [c \in LISTING_COLUMNS |->
        CASE c = "ID #" -> an_id
          [] c = "Subj" -> subject
          [] OTHER -> c \o " of " \o an_id]

\* class_list_for_subject (lines 283-313): the rows of the listing
class_list_for_subject(subject) ==
    IF site.listing[subject] = "rows"
    THEN [i \in 1..Len(ListedCourses[subject]) |->
             listing_row(ListedCourses[subject][i], subject)]
    ELSE <<>>

\* class_list_for_cid raises IndexError (line 232): the site's error page has
\* no table of the course
cid_index_error(source) == site.detail[source[1]] = "system_error"

\* class_list_for_cid raises anything else (line 338)
cid_raises(source) == site.detail[source[1]] = "refused"

\* class_list_for_cid (lines 316-342): the one row of the course's own page
class_list_for_cid(source) ==
    IF site.detail[source[1]] \in {"system_error", "refused"}
    THEN <<>>
    ELSE <<listing_row(source[1], SubjOf(source[1]))>>

\* lines 529-537, by the mode of the run
fetch_index_error(source) ==
    IF TermMode THEN listing_index_error(source) ELSE cid_index_error(source)

fetch_raises(source) ==
    IF TermMode THEN listing_raises(source) ELSE cid_raises(source)

fetched_df(source) ==
    IF TermMode THEN class_list_for_subject(source) ELSE class_list_for_cid(source)

\* a variant of course_detail that returns the mapping, with its 'Unknown',
\* for a page without the course level
course_detail_defaults(an_id) == site.detail[an_id] \in {"no_size", "refused"}

\* course_detail raises (line 374; line 408; line 437)
course_detail_raises(an_id) == site.detail[an_id] \in {"no_size", "no_level", "refused"}

\* what course_detail puts into to_get for a key (lines 400-436)
detail_field(an_id, k) ==
    CASE k = "Size:" -> StrToNat(an_id) + 20
      [] k = "Enrolled:" -> StrToNat(an_id)
      [] k = ONLINE_18 -> an_id = "000013"
      [] k = "LASC/WI" -> IF an_id = "000012" THEN "" ELSE "3"
      [] k = COURSE_LEVEL ->
            IF site.detail[an_id] = "no_level" THEN "Unknown" ELSE "Undergraduate"
      [] OTHER -> k \o " of " \o an_id

\* course_detail (lines 345-440), when it returns
course_detail(an_id) ==
    IF site.detail[an_id] = "system_error"
    THEN [k \in SIZE_KEYS |-> 0 - 1]
    ELSE [k \in SIZE_KEYS \cup EXTRA_COLUMNS |-> detail_field(an_id, k)]

\* results[k] after the loop of lines 565-570 over the ids
RECURSIVE results(_, _)
results(IDs, k) ==
    IF IDs = <<>> THEN <<>>
    ELSE (IF k \in DOMAIN course_detail(Head(IDs))
          THEN <<course_detail(Head(IDs))[k]>> ELSE <<>>) \o results(Tail(IDs), k)

IDsOf(df) == [i \in 1..Len(df) |-> df[i]["ID #"]]

\* a column of EXTRA_COLUMNS cannot be added to the frame: no value at all
\* (IndexError at line 589), or a Series of another length than the frame,
\* which polars refuses unless it is of length 1 and this polars broadcasts
\* (line 592)
extra_column_raises(df) ==
    \E k \in EXTRA_COLUMNS :
        LET col_values == results(IDsOf(df), k)
        IN  \/ col_values = <<>>
            \/ /\ Len(col_values) # Len(df)
               /\ ~(Len(col_values) = 1 /\ broadcasts)

\* line 625: source + '.csv' is a str for a subject; for an (id, term) tuple
\* the + raises TypeError
temp_file_raises == ~TermMode

temp_file(source) == source \o ".csv"

\* the iteration of the loop of line 523 gets as far as line 625
reaches_temp_file(source) ==
    /\ ~fetch_raises(source)
    /\ ~fetch_index_error(source)
    /\ LET data_df == fetched_df(source)
       IN  /\ data_df # <<>>
           /\ \A i \in 1..Len(data_df) : ~course_detail_raises(data_df[i]["ID #"])
           /\ ~extra_column_raises(data_df)

\* the iteration of the loop of line 523 for the source ends in an exception
\* nothing catches
source_raises(source) ==
    \/ fetch_raises(source)
    \/ /\ ~fetch_index_error(source)
       /\ LET data_df == fetched_df(source)
          IN  /\ data_df # <<>>
              /\ \/ \E i \in 1..Len(data_df) : course_detail_raises(data_df[i]["ID #"])
                 \/ extra_column_raises(data_df)
                 \/ temp_file_raises

\* the iteration ends at line 546 or 550: the source goes to bads
source_skipped(source) ==
    /\ ~fetch_raises(source)
    /\ \/ fetch_index_error(source)
       \/ fetched_df(source) = <<>>

\* str() of a Python value of a column of EXTRA_COLUMNS (lines 589-590): the
\* booleans of the 18online column become 'True' and 'False'
py_str(k, v) == IF k = ONLINE_18 THEN (IF v THEN "True" ELSE "False") ELSE v

\* lines 612-615: an empty string of a string column becomes null
empty_to_null(c, v) ==
    IF c \in SIZE_KEYS \cup {"timestamp"} THEN v ELSE IF v = "" THEN Null ELSE v

\* data_df at line 615: the listing rows with the detail columns, the time and
\* the term added, in the columns of DESIRED_ORDER
detailed_rows(source, year_term) ==
    LET data_df == fetched_df(source)
        IDs == IDsOf(data_df)
    IN  [i \in 1..Len(data_df) |->
            [c \in Range(DESIRED_ORDER) |->
                empty_to_null(c,
                    CASE c \in LISTING_COLUMNS -> data_df[i][c]
                      [] c = "year_term" -> year_term
                      [] c = "timestamp" -> now
                      [] OTHER ->
                            LET col_values == results(IDs, c)
                            IN  py_str(c, IF Len(col_values) = Len(data_df)
                                          THEN col_values[i] ELSE col_values[1]))]]

\* a variant of lines 618-621 that keeps only the table of the last source
concat_replacing(composite, data_df) == data_df

\* lines 618-621: the table of the source is put after the rows collected so far
concat(composite, data_df) ==
    IF composite = <<>> THEN data_df ELSE composite \o data_df

\* line 560
use_year_term(source) == IF TermMode THEN args.year_term ELSE source[2]

\* a CSV file: its header line and its rows
csv_file(columns, rows) == [columns |-> columns, rows |-> rows]

\* the request of lines 533 / 537
listing_request(source) ==
    IF TermMode THEN <<"get", "listing", source>> ELSE <<"get", "detail", source[1]>>

\* the requests of the loop of lines 565-570, which ends at the first
\* course_detail that raises
RECURSIVE detail_requests(_)
detail_requests(IDs) ==
    IF IDs = <<>> THEN <<>>
    ELSE <<<<"get", "detail", Head(IDs)>>>> \o
         (IF course_detail_raises(Head(IDs)) THEN <<>> ELSE detail_requests(Tail(IDs)))

SInit ==
    /\ spc = "start"
    /\ args \in [year_term : YearTermArgs, cid_list : CidListArgs]
    /\ site \in Sites
    /\ broadcasts \in BOOLEAN
    /\ source_list = <<>>
    /\ done_sources = 0
    /\ bads = <<>>
    /\ temp_paths = <<>>
    /\ checkpoints = <<>>
    /\ composite_df = <<>>
    /\ all_enrollments = <<>>
    /\ from_disk = <<>>
    /\ summary = <<>>
    /\ events = <<>>

\* lines 461-466: the run ends with the usage error
ArgsRejected ==
    /\ spc = "start"
    /\ args_raise
    /\ spc' = "usage_raised"
    /\ UNCHANGED <<args, site, broadcasts, source_list, done_sources, bads, temp_paths,
                   checkpoints, composite_df, all_enrollments, from_disk, summary, events>>
    /\ UNCHANGED <<mvars, wvars>>

\* lines 476-519: the sources of the run, the destination folder
StartScrape ==
    /\ spc = "start"
    /\ ~args_raise
    /\ LET sources == IF TermMode THEN get_subject_list(args.year_term)
                      ELSE cid_source_list
       IN  /\ source_list' = sources
           /\ spc' = IF sources = <<>> THEN "no_data_raised" ELSE "loop"
           /\ events' = (IF TermMode THEN <<<<"get", "root">>>> ELSE <<>>)
                           \o (IF sources = <<>> THEN <<>> ELSE <<<<"mkdir">>>>)
    /\ UNCHANGED <<args, site, broadcasts, done_sources, bads, temp_paths, checkpoints,
                   composite_df, all_enrollments, from_disk, summary>>
    /\ UNCHANGED <<mvars, wvars>>

NextSource == source_list[done_sources + 1]

\* lines 523-550: the source has no table or no rows
SkipSource ==
    /\ spc = "loop"
    /\ done_sources < Len(source_list)
    /\ source_skipped(NextSource)
    /\ bads' = Append(bads, NextSource)
    /\ done_sources' = done_sources + 1
    /\ events' = Append(events, listing_request(NextSource))
    /\ UNCHANGED <<spc, args, site, broadcasts, source_list, temp_paths, checkpoints,
                   composite_df, all_enrollments, from_disk, summary>>
    /\ UNCHANGED <<mvars, wvars>>

\* a variant of the iteration that leaves the writing of the checkpoint for
\* later
ProcessSourceDeferred ==
    /\ spc = "loop"
    /\ done_sources < Len(source_list)
    /\ ~source_skipped(NextSource)
    /\ ~source_raises(NextSource)
    /\ LET data_df == detailed_rows(NextSource, use_year_term(NextSource))
       IN  /\ composite_df' = concat(composite_df, data_df)
           /\ events' = events \o <<listing_request(NextSource)>>
                           \o detail_requests(IDsOf(data_df))
    /\ temp_paths' = Append(temp_paths, temp_file(NextSource))
    /\ done_sources' = done_sources + 1
    /\ UNCHANGED <<spc, args, site, broadcasts, source_list, bads, checkpoints,
                   all_enrollments, from_disk, summary>>
    /\ UNCHANGED <<mvars, wvars>>

\* lines 523-630: the source's rows go to composite_df and to its checkpoint
ProcessSource ==
    /\ spc = "loop"
    /\ done_sources < Len(source_list)
    /\ ~source_skipped(NextSource)
    /\ ~source_raises(NextSource)
    /\ LET data_df == detailed_rows(NextSource, use_year_term(NextSource))
       IN  /\ composite_df' = concat(composite_df, data_df)
           /\ checkpoints' = (temp_file(NextSource) :> csv_file(DESIRED_ORDER, data_df))
                                @@ checkpoints
           /\ events' = events \o <<listing_request(NextSource)>>
                           \o detail_requests(IDsOf(data_df))
                           \o <<<<"write", temp_file(NextSource)>>>>
    /\ temp_paths' = Append(temp_paths, temp_file(NextSource))
    /\ done_sources' = done_sources + 1
    /\ UNCHANGED <<spc, args, site, broadcasts, source_list, bads, all_enrollments,
                   from_disk, summary>>
    /\ UNCHANGED <<mvars, wvars>>

\* lines 523-630: an exception leaves the loop and ends the run; the one of
\* line 625 comes after the rows went to composite_df
SourceRaises ==
    /\ spc = "loop"
    /\ done_sources < Len(source_list)
    /\ source_raises(NextSource)
    /\ spc' = "loop_raised"
    /\ composite_df' = IF reaches_temp_file(NextSource)
                       THEN concat(composite_df,
                                   detailed_rows(NextSource, use_year_term(NextSource)))
                       ELSE composite_df
    /\ events' = events \o <<listing_request(NextSource)>>
                    \o detail_requests(IDsOf(fetched_df(NextSource)))
    /\ UNCHANGED <<args, site, broadcasts, source_list, done_sources, bads, temp_paths,
                   checkpoints, all_enrollments, from_disk, summary>>
    /\ UNCHANGED <<mvars, wvars>>

\* lines 632-639: the summary line and the combined file; a frame that never
\* got rows has no columns
WriteCombined ==
    /\ spc = "loop"
    /\ done_sources = Len(source_list)
    /\ summary' = <<[processed |-> Len(source_list) - Len(bads),
                     failed |-> Len(bads),
                     courses |-> Len(composite_df)]>>
    /\ all_enrollments' =
          <<csv_file(IF composite_df = <<>> THEN <<>> ELSE DESIRED_ORDER, composite_df)>>
    /\ events' = Append(events, <<"write", "all_enrollments.csv">>)
    /\ spc' = "written"
    /\ UNCHANGED <<args, site, broadcasts, source_list, done_sources, bads, temp_paths,
                   checkpoints, composite_df, from_disk>>
    /\ UNCHANGED <<mvars, wvars>>

\* what pl.read_csv may give for the file just written: its rows, or fewer of
\* them when the file did not reach the disk whole
ReadBack(file) ==
    {file.rows} \cup (IF file.rows = <<>> THEN {}
                      ELSE {SubSeq(file.rows, 1, Len(file.rows) - 1)})

\* lines 642-645: the file is read back; a file without columns cannot be
\* read, and another number of rows than composite_df has is fatal
Verify ==
    /\ spc = "written"
    /\ \E rows \in ReadBack(all_enrollments[1]) :
          /\ from_disk' = <<rows>>
          /\ spc' = IF all_enrollments[1].columns = <<>> \/ Len(rows) # Len(composite_df)
                    THEN "verify_raised" ELSE "verified"
    /\ UNCHANGED <<args, site, broadcasts, source_list, done_sources, bads, temp_paths,
                   checkpoints, composite_df, all_enrollments, summary, events>>
    /\ UNCHANGED <<mvars, wvars>>

\* a variant of the cleanup that does not wait for the verification
DeleteCheckpointsUnverified ==
    /\ spc \in {"written", "verify_raised", "verified"}
    /\ checkpoints' = [f \in DOMAIN checkpoints \ Range(temp_paths) |-> checkpoints[f]]
    /\ spc' = "done"
    /\ UNCHANGED <<args, site, broadcasts, source_list, done_sources, bads, temp_paths,
                   composite_df, all_enrollments, from_disk, summary, events>>
    /\ UNCHANGED <<mvars, wvars>>

\* lines 647-651
DeleteCheckpoints ==
    /\ spc = "verified"
    /\ checkpoints' = [f \in DOMAIN checkpoints \ Range(temp_paths) |-> checkpoints[f]]
    /\ spc' = "done"
    /\ UNCHANGED <<args, site, broadcasts, source_list, done_sources, bads, temp_paths,
                   composite_df, all_enrollments, from_disk, summary, events>>
    /\ UNCHANGED <<mvars, wvars>>

ScrapeNext ==
    \/ ArgsRejected
    \/ StartScrape
    \/ SkipSource
    \/ ProcessSource
    \/ SourceRaises
    \/ WriteCombined
    \/ Verify
    \/ DeleteCheckpoints

\* the merge engine is at rest while the collector runs
ScrapeInit == MInit /\ SInit /\ WebAtRest

ScrapeSpec == ScrapeInit /\ [][ScrapeNext]_vars

-----------------------------------------------------------------------------
(* Properties of the collector *)

\* the source's listing or one of its detail pages cannot be fetched or parsed
SourceFails(subject) ==
    \/ site.listing[subject] \in {"no_table", "refused"}
    \/ /\ site.listing[subject] = "rows"
       /\ \E c \in Range(ListedCourses[subject]) :
             site.detail[c] \in {"no_size", "no_level", "refused"}

\* the source's listing has rows and every detail page of it is complete
SourceSound(subject) ==
    /\ site.listing[subject] = "rows"
    /\ \A c \in Range(ListedCourses[subject]) : site.detail[c] = "ok"

\* C10: whatever fails in fetching or parsing a source's listing or detail
\* pages, the loop does not raise on that source; it ends with every failing
\* source in bads and the rows of every sound source in the combined table.
CollectorFailureIsolation ==
    TermMode =>
        /\ spc = "loop_raised" => ~SourceFails(NextSource)
        /\ spc \in {"written", "verified", "done"} =>
              \A subject \in Range(source_list) :
                  /\ SourceFails(subject) => subject \in Range(bads)
                  /\ SourceSound(subject) =>
                        \E i \in 1..Len(composite_df) : composite_df[i]["Subj"] = subject

\* the subject's listing has rows, and its detail pages are complete but for
\* pages of the one kind
OnlyDefect(subject, kind) ==
    /\ site.listing[subject] = "rows"
    /\ \A c \in Range(ListedCourses[subject]) : site.detail[c] \in {"ok", kind}
    /\ \E c \in Range(ListedCourses[subject]) : site.detail[c] = kind

\* the rows of a table for a course
RowsFor(df, an_id) == {i \in 1..Len(df) : df[i]["ID #"] = an_id}

\* the sources the loop has gone through without putting them into bads
ProcessedSources == {source_list[i] : i \in 1..done_sources} \ Range(bads)

\* C11: a detail page with the system-error marker does not end the run: the
\* loop does not raise on a subject whose only defect is such a page, and the
\* course has a row with Size: = -1 and Enrolled: = -1 in the subject's
\* checkpoint and in the combined table.
SystemErrorDetail ==
    TermMode =>
        /\ spc = "loop_raised" => ~OnlyDefect(NextSource, "system_error")
        /\ spc \in {"loop", "written", "verified"} =>
              \A subject \in ProcessedSources :
                  \A c \in Range(ListedCourses[subject]) :
                      site.detail[c] = "system_error" =>
                          /\ \E i \in RowsFor(composite_df, c) :
                                /\ composite_df[i]["Size:"] = 0 - 1
                                /\ composite_df[i]["Enrolled:"] = 0 - 1
                          /\ \E i \in RowsFor(checkpoints[temp_file(subject)].rows, c) :
                                /\ checkpoints[temp_file(subject)].rows[i]["Size:"] = 0 - 1
                                /\ checkpoints[temp_file(subject)].rows[i]["Enrolled:"] = 0 - 1

\* one subject of the term has a listing without rows, every other is sound
OneEmptySubject ==
    /\ TermMode
    /\ Cardinality({i \in 1..Len(source_list) : site.listing[source_list[i]] = "no_rows"}) = 1
    /\ \A i \in 1..Len(source_list) :
          site.listing[source_list[i]] # "no_rows" => SourceSound(source_list[i])

\* C12: when one of the N subjects has a listing without rows and the others
\* are sound, the run completes, the combined table has all rows of the others
\* and none of that subject, and the summary counts N-1 processed and 0 failed.
ZeroCourseSubject ==
    (OneEmptySubject /\ source_list # <<>>) =>
        /\ spc \notin {"loop_raised", "verify_raised"}
        /\ summary # <<>> =>
              /\ summary[1].processed = Len(source_list) - 1
              /\ summary[1].failed = 0
              /\ \A i \in 1..Len(source_list) :
                    LET subject == source_list[i]
                    IN  Cardinality({j \in 1..Len(all_enrollments[1].rows) :
                                        all_enrollments[1].rows[j]["Subj"] = subject})
                           = IF site.listing[subject] = "no_rows" THEN 0
                             ELSE Len(ListedCourses[subject])

\* the event is the request for a subject's listing page
IsListingRequest(e) == Len(e) = 3 /\ e[1] = "get" /\ e[2] = "listing"

\* every checkpoint of a successfully processed source is written before the
\* listing of any later source is requested
WrittenBeforeNextRequest ==
    TermMode =>
        \A i, j \in 1..Len(events) :
            (i < j /\ IsListingRequest(events[i]) /\ IsListingRequest(events[j])) =>
                \/ events[i][3] \in Range(bads)
                \/ \E w \in (i + 1)..(j - 1) : events[w] = <<"write", temp_file(events[i][3])>>

\* until the cleanup the checkpoints on disk are those of the sources
\* processed so far
CheckpointsCoverProcessed ==
    spc \in {"loop", "loop_raised", "written", "verify_raised", "verified"} =>
        /\ DOMAIN checkpoints = {temp_file(source) : source \in ProcessedSources}
        /\ DOMAIN checkpoints = Range(temp_paths)

\* C13: the checkpoint of every successfully processed source is written
\* before any request for the next source is sent, so that until the final
\* cleanup the checkpoints on disk are exactly those of the sources processed
\* successfully so far.
CheckpointOrdering == WrittenBeforeNextRequest /\ CheckpointsCoverProcessed

CheckpointOrderingWitness ==
    /\ spc = "loop"
    /\ done_sources = 2
    /\ bads = <<>>
    /\ Cardinality(DOMAIN checkpoints) = 2

\* a step removes a checkpoint file
DeletesCheckpoint == \E f \in DOMAIN checkpoints : f \notin DOMAIN checkpoints'

\* the combined file is written, was read back and has the rows of composite_df
VerifiedOnDisk ==
    /\ all_enrollments # <<>>
    /\ from_disk # <<>>
    /\ Len(from_disk[1]) = Len(composite_df)

\* C14: a step deletes checkpoint files only when the combined file has been
\* written, read back and found to have as many rows as the table in memory;
\* when the numbers differ the run has ended fatally and every checkpoint
\* file is still on disk.
DeletionOnlyAfterVerification ==
    /\ [][DeletesCheckpoint => VerifiedOnDisk]_vars
    /\ []((from_disk # <<>> /\ Len(from_disk[1]) # Len(composite_df)) =>
             /\ spc = "verify_raised"
             /\ DOMAIN checkpoints = Range(temp_paths))

DeletionWitness ==
    /\ spc = "done"
    /\ temp_paths # <<>>
    /\ checkpoints = <<>>

\* the rows of the checkpoint files, in the order the files were written
RECURSIVE ConcatCheckpoints(_)
ConcatCheckpoints(paths) ==
    IF paths = <<>> THEN <<>>
    ELSE checkpoints[Head(paths)].rows \o ConcatCheckpoints(Tail(paths))

CidMode == ~args_raise /\ ~TermMode

\* the pair's page is complete
PairSound(source) == site.detail[source[1]] = "ok"

\* C16: in id/term-list mode the loop does not raise on a pair whose page is
\* complete, and a run that gets to the combined file has, for every such
\* pair, a checkpoint named after the id and one row of the combined table,
\* with the pair's term as year_term.
CidListMode ==
    CidMode =>
        /\ spc = "loop_raised" => ~PairSound(NextSource)
        /\ spc \in {"written", "verified"} =>
              \A p \in 1..Len(source_list) :
                  PairSound(source_list[p]) =>
                      /\ (source_list[p][1] \o ".csv") \in DOMAIN checkpoints
                      /\ Cardinality({i \in RowsFor(composite_df, source_list[p][1]) :
                                         composite_df[i]["year_term"] = source_list[p][2]}) = 1

\* the argument is on the command line
Supplied(x) == x # Null

ExactlyOneSupplied == Supplied(args.year_term) # Supplied(args.cid_list)

MatchesYYYYT(s) ==
    /\ Len(s) = 5
    /\ \A i \in 1..4 : IsDigit(SubSeq(s, i, i))
    /\ SubSeq(s, 5, 5) \in {"1", "3", "5"}

\* C18: with a term-code argument that is not four digits followed by 1, 3
\* or 5 the collector sends no request and makes no folder.
TermCodeValidation ==
    (Supplied(args.year_term) /\ ~MatchesYYYYT(args.year_term)) => events = <<>>

\* the event is the request for the detail page of a course whose page has
\* no course level
IsLevellessRequest(e) ==
    /\ Len(e) = 3
    /\ e[1] = "get"
    /\ e[2] = "detail"
    /\ site.detail[e[3]] = "no_level"

\* C19: course_detail never returns for a page without the course level: the
\* request for such a page is the last thing the run does, which ends with the
\* exception, and no table or file has a row with course level 'Unknown'.
CourseLevelAbsenceFatal ==
    /\ TermMode =>
          \A j \in 1..Len(events) :
              IsLevellessRequest(events[j]) => (j = Len(events) /\ spc = "loop_raised")
    /\ \A i \in 1..Len(composite_df) : composite_df[i][COURSE_LEVEL] # "Unknown"
    /\ \A f \in DOMAIN checkpoints :
          \A i \in 1..Len(checkpoints[f].rows) :
              checkpoints[f].rows[i][COURSE_LEVEL] # "Unknown"

CourseLevelWitness ==
    /\ TermMode
    /\ spc = "loop_raised"
    /\ events # <<>>
    /\ IsLevellessRequest(events[Len(events)])
    /\ OnlyDefect(NextSource, "no_level")

\* C20: the loop does not raise on a subject whose only defect is a detail
\* page without the 'Enrolled:' or 'Size:' element, and the courses of such a
\* subject are in the combined table.
SizeAbsenceTolerated ==
    TermMode =>
        /\ spc = "loop_raised" => ~OnlyDefect(NextSource, "no_size")
        /\ spc \in {"written", "verified", "done"} =>
              \A subject \in Range(source_list) :
                  OnlyDefect(subject, "no_size") =>
                      \A c \in Range(ListedCourses[subject]) : RowsFor(composite_df, c) # {}

-----------------------------------------------------------------------------
(* app.py, models.py, utils.py: the search form and the filter *)

\* str.upper() on one character
UpperChar(c) ==
    IF \E i \in 1..Len(LowerCase) : SubSeq(LowerCase, i, i) = c
    THEN LET i == CHOOSE j \in 1..Len(LowerCase) : SubSeq(LowerCase, j, j) = c
         IN  SubSeq(UpperCase, i, i)
    ELSE c

RECURSIVE to_uppercase(_)
to_uppercase(s) ==
    IF Len(s) = 0 THEN s
    ELSE UpperChar(SubSeq(s, 1, 1)) \o to_uppercase(SubSeq(s, 2, Len(s)))

\* str.strip()
RECURSIVE strip(_)
strip(s) ==
    IF Len(s) > 0 /\ SubSeq(s, 1, 1) = " " THEN strip(SubSeq(s, 2, Len(s)))
    ELSE IF Len(s) > 0 /\ SubSeq(s, Len(s), Len(s)) = " " THEN strip(SubSeq(s, 1, Len(s) - 1))
    ELSE s

\* '/'.join(parts)
RECURSIVE join(_)
join(parts) ==
    IF parts = <<>> THEN ""
    ELSE IF Len(parts) = 1 THEN parts[1]
    ELSE parts[1] \o "/" \o join(Tail(parts))

\* the segments of a path between its slashes
RECURSIVE segments(_, _)
segments(path, segment) ==
    IF Len(path) = 0 THEN (IF segment = "" THEN <<>> ELSE <<segment>>)
    ELSE IF SubSeq(path, 1, 1) = "/"
         THEN (IF segment = "" THEN <<>> ELSE <<segment>>)
                 \o segments(SubSeq(path, 2, Len(path)), "")
         ELSE segments(SubSeq(path, 2, Len(path)), segment \o SubSeq(path, 1, 1))

\* str.starts_with
starts_with(s, prefix) == Len(s) >= Len(prefix) /\ SubSeq(s, 1, Len(prefix)) = prefix

\* str.contains for a pattern of letters and digits
contains(s, pat) == \E i \in 1..(Len(s) - Len(pat) + 1) : SubSeq(s, i, i + Len(pat) - 1) = pat

\* the order of the characters of the sort columns
Collation == "0123456789ABCDEFGHIJKLMNOPQRSTUVWXYZ"

CharOrd(c) == CHOOSE i \in 1..Len(Collation) : SubSeq(Collation, i, i) = c

\* a < b in the order of strings
RECURSIVE StrLess(_, _)
StrLess(a, b) ==
    IF Len(b) = 0 THEN FALSE
    ELSE IF Len(a) = 0 THEN TRUE
    ELSE IF SubSeq(a, 1, 1) = SubSeq(b, 1, 1)
         THEN StrLess(SubSeq(a, 2, Len(a)), SubSeq(b, 2, Len(b)))
         ELSE CharOrd(SubSeq(a, 1, 1)) < CharOrd(SubSeq(b, 1, 1))

\* config.py lines 37-38: DEFAULT_TERM[0]
DEFAULT_TERM == 20263

\* utils.py line 68
MSUM_COLLEGES == {"cbac", "coah", "cshe", "cehs", "none"}

\* a row of the analytical table, in the columns the filter reads
WebRow(yt, subj, num, sec, college, lasc, online) ==
    [c \in {"Fiscal yrtr", "Subj", "#", "Sec", "College", "LASC/WI", "18online"} |->
        CASE c = "Fiscal yrtr" -> yt
          [] c = "Subj" -> subj
          [] c = "#" -> num
          [] c = "Sec" -> sec
          [] c = "College" -> college
          [] c = "LASC/WI" -> lasc
          [] c = "18online" -> online]

\* the analytical table read at app.py line 111: one whose latest term is Fall
\* 2025, and the same after the merge of a scrape of Spring 2026
WebTables ==
    { << WebRow(20263, "ENGL", "101", "02", "COAH", "1B,WI", TRUE),
         WebRow(20263, "PHYS", "305", "01", "CSHE", Null, FALSE),
         WebRow(20263, "PHYS", "101", "01", "CSHE", "3L", FALSE),
         WebRow(20255, "PHYS", "101", "01", "CSHE", "3L", FALSE),
         WebRow(20255, "AST", "104L", "01", Null, "3", FALSE),
         WebRow(20255, "ENGL", "101", "01", "COAH", "WI", FALSE) >>,
      << WebRow(20265, "PHYS", "101", "01", "CSHE", "3L", FALSE),
         WebRow(20263, "ENGL", "101", "02", "COAH", "1B,WI", TRUE),
         WebRow(20263, "PHYS", "101", "01", "CSHE", "3L", FALSE),
         WebRow(20255, "PHYS", "101", "01", "CSHE", "3L", FALSE),
         WebRow(20255, "AST", "104L", "01", Null, "3", FALSE) >> }

\* config_terms.SEMESTERS_LIST[0][0]: update_data_table writes the list from
\* the analytical table, latest term first (update_data_table.py lines 286-296)
upcoming_term(tbl) ==
    ToString(CHOOSE t \in {tbl[i]["Fiscal yrtr"] : i \in 1..Len(tbl)} :
                \A i \in 1..Len(tbl) : tbl[i]["Fiscal yrtr"] <= t)

\* utils.py lines 77-93: the filter of the subject
subject_filter(tbl, subject) ==
    IF subject \in MSUM_COLLEGES
    THEN SelectSeq(tbl, LAMBDA r : r["College"] # Null /\ r["College"] = to_uppercase(subject))
    ELSE IF subject = "lasc"
    THEN SelectSeq(tbl, LAMBDA r : r["LASC/WI"] # Null /\ r["LASC/WI"] # "WI")
    ELSE IF subject = "wi"
    THEN SelectSeq(tbl, LAMBDA r : r["LASC/WI"] # Null /\ contains(r["LASC/WI"], "WI"))
    ELSE IF subject = "18online"
    THEN SelectSeq(tbl, LAMBDA r : r["18online"])
    ELSE IF subject = "all"
    THEN tbl
    ELSE SelectSeq(tbl, LAMBDA r : r["Subj"] = to_uppercase(subject))

\* utils.py line 98
RECURSIVE specs_of(_)
specs_of(given) ==
    IF given = <<>> THEN <<>>
    ELSE (IF Head(given) # Null /\ Head(given) # "" /\ to_lowercase(Head(given)) # "all"
          THEN <<to_lowercase(Head(given))>> ELSE <<>>) \o specs_of(Tail(given))

\* utils.py line 118
is_term_spec(spec) == Len(spec) = 5 /\ SubSeq(spec, 5, 5) \in {"1", "3", "5"}

\* int(spec) at line 120 raises ValueError
int_raises(spec) == \E i \in 1..Len(spec) : ~IsDigit(SubSeq(spec, i, i))

\* re.match('[a-z]{2,4}', spec) at line 123: two lower-case letters at the start
is_prefix_spec(spec) ==
    /\ Len(spec) >= 2
    /\ \A i \in 1..2 : \E j \in 1..Len(LowerCase) : SubSeq(LowerCase, j, j) = SubSeq(spec, i, i)

\* utils.py lines 118-150: the filter of one specifier
spec_filter(tbl, subject, spec) ==
    IF is_term_spec(spec)
    THEN SelectSeq(tbl, LAMBDA r : r["Fiscal yrtr"] = StrToNat(spec))
    ELSE IF is_prefix_spec(spec) /\ spec \notin {"lasc", "wi"}
    THEN SelectSeq(tbl, LAMBDA r : r["Subj"] = to_uppercase(spec))
    ELSE IF subject = "lasc"
    THEN SelectSeq(tbl, LAMBDA r : r["LASC/WI"] # Null /\ contains(r["LASC/WI"], to_uppercase(spec)))
    ELSE IF SubSeq(spec, Len(spec), Len(spec)) = "_"
    THEN SelectSeq(tbl, LAMBDA r :
             starts_with(r["#"], to_uppercase(SubSeq(spec, 1, Len(spec) - 1))))
    ELSE SelectSeq(tbl, LAMBDA r : r["#"] = to_uppercase(spec))

RECURSIVE specs_filter(_, _, _)
specs_filter(tbl, subject, specs) ==
    IF specs = <<>> THEN tbl
    ELSE specs_filter(spec_filter(tbl, subject, Head(specs)), subject, Tail(specs))

\* the row comes before the other in the order of (Fiscal yrtr, Subj, #, Sec)
RowLess(r, s) ==
    \/ r["Fiscal yrtr"] < s["Fiscal yrtr"]
    \/ /\ r["Fiscal yrtr"] = s["Fiscal yrtr"]
       /\ \/ StrLess(r["Subj"], s["Subj"])
          \/ /\ r["Subj"] = s["Subj"]
             /\ \/ StrLess(r["#"], s["#"])
                \/ (r["#"] = s["#"] /\ StrLess(r["Sec"], s["Sec"]))

\* the table as the request sent it to be sorted, left in the order it has
sort_skipped(tbl) == tbl

\* utils.py lines 155-158: sort(by=['Fiscal yrtr', 'Subj', '#', 'Sec'])
RECURSIVE sort(_)
sort(tbl) ==
    IF tbl = <<>> THEN <<>>
    ELSE LET m == CHOOSE i \in 1..Len(tbl) :
                      \A j \in 1..Len(tbl) : ~RowLess(tbl[j], tbl[i])
         IN  <<tbl[m]>> \o sort(SubSeq(tbl, 1, m - 1) \o SubSeq(tbl, m + 1, Len(tbl)))

\* filter_data raises (line 120)
filter_raises(spec1, spec2) ==
    \E i \in 1..Len(specs_of(<<spec1, spec2>>)) :
        LET spec == specs_of(<<spec1, spec2>>)[i]
        IN  is_term_spec(spec) /\ int_raises(spec)

\* filter_data (utils.py lines 19-161): the rows of the frame it returns
filter_data(tbl, subject_given, spec1, spec2) ==
    LET subject == to_lowercase(subject_given)
        filtered_table == subject_filter(tbl, subject)
        specs == specs_of(<<spec1, spec2>>)
    IN  sort(IF specs = <<>> /\ subject # "all"
             THEN SelectSeq(filtered_table, LAMBDA r : r["Fiscal yrtr"] = DEFAULT_TERM)
             ELSE specs_filter(filtered_table, subject, specs))

\* models.py lines 7-14 and 16-94: the values of the subject_or_college field
\* the model submits ('_' is the divider entry)
SubjectChoices == {"", "_", "CSHE", "PHYS", "ENGL"}

COLLEGE_CODES == {"CBAC", "COAH", "CSHE", "CEHS"}

\* models.py lines 100-117: the values of the course_type field the model submits
CourseTypeChoices == {"", "lasc/3", "wi", "18"}

\* models.py lines 120-156: the term codes of TERM_CHOICES the model submits
TermChoices == {"", "20263", "20255"}

\* values a browser can send for the term that are no choice of the field
\* (models.py line 148 takes "20145" out of the choices)
OtherTerms == {"20265", "20145"}

ClassCodes == {"", "101", "10"}

Forms ==
    [subject_or_college : SubjectChoices,
     course_type : CourseTypeChoices,
     term : TermChoices \cup OtherTerms,
     class_code : ClassCodes]

\* FlaskForm.validate (models.py line 200): every select value is a choice of
\* its field, a class code has 3 or 4 characters
fields_validate(f) ==
    /\ f.term \in TermChoices
    /\ f.class_code # "" => Len(f.class_code) \in 3..4

\* models.py line 239: the list comprehension unpacks every entry of COLLEGES
\* into two names, and the divider entry of line 9 has three items
validate_raises(f) ==
    /\ fields_validate(f)
    /\ f.subject_or_college # "_"
    /\ f.term # "20145"
    /\ f.class_code # ""
    /\ f.subject_or_college # ""

\* SearchForm.validate (models.py lines 198-245), when it returns
validate(f) ==
    /\ fields_validate(f)
    /\ f.subject_or_college # "_"
    /\ f.term # "20145"
    /\ f.class_code # "" => f.subject_or_college # ""
    /\ f.class_code # "" => f.subject_or_college \notin COLLEGE_CODES \cup {""}

\* models.py lines 219-221: the form after validate
validated(f) ==
    IF f.subject_or_college # "" /\ f.course_type # ""
    THEN [f EXCEPT !.course_type = ""] ELSE f

\* build_url (app.py lines 132-184)
build_url(f, tbl) ==
    IF strip(f.subject_or_college) = "" /\ strip(f.course_type) = ""
          /\ strip(f.term) = "" /\ strip(f.class_code) = ""
    THEN "/all"
    ELSE LET target == to_lowercase(strip(f.subject_or_college))
             ctype == strip(f.course_type)
             term_val == strip(f.term)
             subject_val == to_lowercase(strip(f.subject_or_college))
             course_type_val == strip(f.course_type)
             parts == (IF target # "" THEN <<target>>
                       ELSE IF ctype # "" THEN <<(IF ctype = "18" THEN "18online" ELSE ctype)>>
                       ELSE <<>>)
                      \o (IF term_val # ""
                             /\ ~(/\ term_val = upcoming_term(tbl)
                                  /\ \/ (subject_val # "" /\ subject_val # "all")
                                     \/ course_type_val # "")
                          THEN <<term_val>> ELSE <<>>)
                      \o (IF f.class_code # "" THEN <<strip(f.class_code)>> ELSE <<>>)
         IN  IF parts # <<>> THEN "/" \o join(parts) ELSE "/"

\* the paths a browser asks for directly
DirectSubjects == {"phys", "ENGL", "cshe", "lasc", "wi", "18online", "all"}

DirectSpecs == {"101", "10_", "3", "20255", "all", "engl", "abcd5"}

DirectPaths ==
    {"/" \o s : s \in DirectSubjects}
       \cup {"/" \o s \o "/" \o a : s \in DirectSubjects, a \in DirectSpecs}
       \cup {"/" \o s \o "/" \o a \o "/" \o b :
                s \in {"phys", "lasc", "all"}, a \in {"101", "3", "20255"}, b \in {"20255", "101"}}

\* the routes of app.py lines 99-101: subject, spec1 and spec2 of a path
route_matches(path) == Len(segments(path, "")) \in 1..3

route_args(path) ==
    LET segs == segments(path, "")
    IN  [subject |-> segs[1],
         spec1 |-> IF Len(segs) >= 2 THEN segs[2] ELSE Null,
         spec2 |-> IF Len(segs) >= 3 THEN segs[3] ELSE Null]

WInit ==
    /\ wpc = "idle"
    /\ table \in WebTables
    /\ form = <<>>
    /\ url = ""
    /\ response = <<>>

\* app.py lines 78-92: a form is posted, validated and answered by a redirect
SubmitForm ==
    /\ wpc = "idle"
    /\ \E f \in Forms :
          /\ form' = <<f>>
          /\ IF validate_raises(f)
             THEN wpc' = "validate_raised" /\ url' = url
             ELSE IF ~validate(f)
             THEN wpc' = "invalid" /\ url' = url
             ELSE wpc' = "redirected" /\ url' = build_url(validated(f), table)
    /\ UNCHANGED <<table, response>>
    /\ UNCHANGED <<mvars, svars>>

\* a path is asked for without the form
RequestPath ==
    /\ wpc = "idle"
    /\ \E path \in DirectPaths : url' = path
    /\ wpc' = "requested"
    /\ UNCHANGED <<table, form, response>>
    /\ UNCHANGED <<mvars, svars>>

\* filtered_view (app.py lines 99-129)
Serve ==
    /\ wpc \in {"redirected", "requested"}
    /\ route_matches(url)
    /\ LET a == route_args(url)
       IN  /\ ~filter_raises(a.spec1, a.spec2)
           /\ response' = filter_data(table, a.subject, a.spec1, a.spec2)
    /\ wpc' = IF wpc = "redirected" THEN "served_form" ELSE "served"
    /\ UNCHANGED <<table, form, url>>
    /\ UNCHANGED <<mvars, svars>>

\* filtered_view ends in the ValueError of utils.py line 120
ServeRaises ==
    /\ wpc \in {"redirected", "requested"}
    /\ route_matches(url)
    /\ filter_raises(route_args(url).spec1, route_args(url).spec2)
    /\ wpc' = "serve_raised"
    /\ UNCHANGED <<table, form, url, response>>
    /\ UNCHANGED <<mvars, svars>>

WebNext ==
    \/ SubmitForm
    \/ RequestPath
    \/ Serve
    \/ ServeRaises

WebInit == MInit /\ ScrapeAtRest /\ WInit

WebSpec == WebInit /\ [][WebNext]_vars

-----------------------------------------------------------------------------
(* Properties of the analytical stage *)

\* the money cell is missing or says n/a, in whatever case
IsMissingMoney(v) == v = Null \/ v \in {"n/a", "N/A", "N/a", "n/A"}

\* the decimal numbers, in hundredths, of the money texts of the model
ExpectedHundredths == ("$1,234.00" :> 123400) @@ ("$0.00" :> 0)

\* the run has written the analytical table from result_df
AnalyticalWritten == pc \in {"parquet_written", "done"}

\* C21: the archive holds '$0.00' where the scrape table had a missing or n/a
\* money value, never a missing or n/a one itself, and the analytical value of
\* a money cell is the decimal number of the archived text without '$' and
\* ',' ('$1,234.00' gives 1234.00, '$0.00' gives 0.00).
CurrencyNormalization ==
    /\ pc \in Written =>
          /\ \A j \in 1..Len(archive) : \A c \in last_cols : ~IsMissingMoney(archive[j][c])
          /\ \A i \in 1..Len(new_df) : \A c \in last_cols :
                IsMissingMoney(new_df[i][c]) =>
                    \E j \in 1..Len(archive) :
                        /\ Key(archive[j]) = Key(new_df[i])
                        /\ archive[j]["Enrolled"] = new_df[i]["Enrolled"]
                        /\ archive[j][c] = "$0.00"
    /\ AnalyticalWritten =>
          /\ Len(parquet) = Len(archive)
          /\ \A j \in 1..Len(archive) :
                /\ archive[j]["Tuition -resident"] \in DOMAIN ExpectedHundredths
                /\ parquet[j]["Tuition Resident"] =
                      ExpectedHundredths[archive[j]["Tuition -resident"]]

CurrencyWitness ==
    /\ pc = "done"
    /\ \E i \in 1..Len(new_df) : new_df[i]["Tuition -resident"] = "N/A"
    /\ \E j \in 1..Len(parquet) : parquet[j]["Tuition Resident"] = 0
    /\ \E j \in 1..Len(parquet) : parquet[j]["Tuition Resident"] = 123400

\* the money cell is present, is not n/a, and is not a decimal number once '$'
\* and ',' are taken out
Unparseable(v) ==
    /\ ~IsMissingMoney(v)
    /\ LET text == SelectSeq(v, LAMBDA ch : ch \notin {"$", ","})
       IN  \/ text = <<>>
           \/ \E i \in 1..Len(text) : text[i] \notin {"0", "1", "2", "3", "4", "5", "6",
                                                      "7", "8", "9", "."}

HasUnparseable(df) ==
    \E i \in 1..Len(df) : \E c \in last_cols : Unparseable(df[i][c])

\* C22: a run whose merged table holds an unparseable money value ends with
\* the error of the cast and writes no analytical table.
UnparseableCurrencyFatal ==
    /\ [][(pc = "csv_written" /\ HasUnparseable(result_df)) =>
             (pc' = "parquet_failed" /\ parquet' = parquet /\ semesters' = semesters)]_vars
    /\ [](AnalyticalWritten => ~HasUnparseable(result_df))

UnparseableWitness ==
    /\ pc = "parquet_failed"
    /\ HasUnparseable(result_df)

\* the labels of the term codes of the model
ExpectedTerm == (20241 :> "Summer 2023") @@ (20243 :> "Fall 2023") @@ (20245 :> "Spring 2024")

\* C23: the Term of an analytical row is Summer, Fall or Spring for the last
\* digit 1, 3 or 5 of its term code, followed by the calendar year: the fiscal
\* year for Spring, the year before it otherwise; the term code itself is the
\* row's Fiscal yrtr.
TermDecomposition ==
    AnalyticalWritten =>
        /\ Len(parquet) = Len(archive)
        /\ \A j \in 1..Len(parquet) :
              /\ parquet[j]["Fiscal yrtr"] = archive[j]["year_term"]
              /\ parquet[j]["Term"] = ExpectedTerm[archive[j]["year_term"]]

TermWitness ==
    /\ pc = "done"
    /\ {parquet[j]["Term"] : j \in 1..Len(parquet)} =
          {"Summer 2023", "Fall 2023", "Spring 2024"}

\* C27: a run writes the backup, then the archive CSV, then the analytical
\* table, then the semester list; a run that fails in the analytical stage has
\* rewritten the archive, and the analytical table and the semester list are
\* as they were before the run.
WriteOrder ==
    /\ [][archive' # archive =>
             /\ pc = "merging"
             /\ backup_file \in DOMAIN backups
             /\ backups[backup_file] = current_df]_vars
    /\ [][parquet' # parquet => (pc = "csv_written" /\ archive = result_df)]_vars
    /\ [][semesters' # semesters =>
             (pc = "parquet_written" /\ parquet = analytical(archive))]_vars
    /\ [][pc' = "parquet_failed" =>
             /\ pc = "csv_written"
             /\ archive' = result_df'
             /\ parquet' = parquet
             /\ semesters' = semesters]_vars
    /\ [](pc = "parquet_failed" => archive = result_df)

AbortedAnalyticalWitness ==
    /\ pc = "parquet_failed"
    /\ archive # current_df
    /\ Len(parquet) # Len(archive)
    /\ backups[backup_file] = current_df

\* the rows the run compares by index
IndexedRows == Range(add_index_col(current_df)) \cup Range(add_index_col(new_df))

\* C28: two rows get the same index exactly when they agree on year_term,
\* ID #, Subj and #, so the merge never takes rows of different composite keys
\* for the same record: every key the run read is in the archive it writes.
IndexInjective ==
    /\ pc = "merging" =>
          \A r1, r2 \in IndexedRows : (r1["index"] = r2["index"]) <=> (Key(r1) = Key(r2))
    /\ pc \in Written => Keys(current_df) \cup Keys(new_df) \subseteq Keys(archive)

\* C30: a run's backup is written under a name no earlier run used, and no
\* backup file is ever rewritten or removed.
BackupsNeverOverwritten ==
    /\ [][(pc = "loaded" /\ pc' = "backed_up") => backup_file' \notin DOMAIN backups]_vars
    /\ [][\A t \in DOMAIN backups :
             t \in DOMAIN backups' /\ backups'[t] = backups[t]]_vars

\* what the detail page of the course itself gives for a column of a row: the
\* page's value for a complete page, -1 sizes and no other value for the
\* site's error page
OwnDetail(an_id, k) ==
    IF site.detail[an_id] = "system_error"
    THEN (IF k \in SIZE_KEYS THEN 0 - 1 ELSE Null)
    ELSE empty_to_null(k, py_str(k, detail_field(an_id, k)))

RowHasOwnDetail(r) ==
    \A k \in SIZE_KEYS \cup EXTRA_COLUMNS : r[k] = OwnDetail(r["ID #"], k)

-----------------------------------------------------------------------------
(* Properties of the filter and the search form *)

\* a request has been answered with rows
Served == wpc \in {"served", "served_form"}

\* the specifiers of the answered request, as the filter reads them
RequestSpecs == specs_of(<<route_args(url).spec1, route_args(url).spec2>>)

\* a specifier is a term code: five digits, the last of them 1, 3 or 5
IsTermCode(spec) ==
    /\ Len(spec) = 5
    /\ \A i \in 1..5 : IsDigit(SubSeq(spec, i, i))
    /\ SubSeq(spec, 5, 5) \in {"1", "3", "5"}

\* the request names a term code
NamesTerm == \E i \in 1..Len(RequestSpecs) : IsTermCode(RequestSpecs[i])

\* the most recent term present in the table
LatestTerm ==
    CHOOSE t \in {table[i]["Fiscal yrtr"] : i \in 1..Len(table)} :
        \A i \in 1..Len(table) : table[i]["Fiscal yrtr"] <= t

\* C24: a request that names no term code is answered only with rows of the
\* most recent term present in the table, whatever other predicates it carries;
\* rows of all terms are never returned by default.
DefaultTermIsLatest ==
    (Served /\ ~NamesTerm) =>
        \A i \in 1..Len(response) : response[i]["Fiscal yrtr"] = LatestTerm

\* the row satisfies the predicate the subject segment of the request names
SatisfiesSubject(r, subject) ==
    CASE subject \in MSUM_COLLEGES -> r["College"] = to_uppercase(subject)
      [] subject = "lasc" -> r["LASC/WI"] # Null /\ r["LASC/WI"] # "WI"
      [] subject = "wi" -> r["LASC/WI"] # Null /\ contains(r["LASC/WI"], "WI")
      [] subject = "18online" -> r["18online"] = TRUE
      [] subject = "all" -> TRUE
      [] OTHER -> r["Subj"] = to_uppercase(subject)

\* the row satisfies the predicate a specifier of the request names
SatisfiesSpec(r, subject, spec) ==
    IF IsTermCode(spec) THEN r["Fiscal yrtr"] = StrToNat(spec)
    ELSE IF is_prefix_spec(spec) /\ spec \notin {"lasc", "wi"} THEN r["Subj"] = to_uppercase(spec)
    ELSE IF subject = "lasc" THEN r["LASC/WI"] # Null /\ contains(r["LASC/WI"], to_uppercase(spec))
    ELSE IF SubSeq(spec, Len(spec), Len(spec)) = "_"
    THEN starts_with(r["#"], to_uppercase(SubSeq(spec, 1, Len(spec) - 1)))
    ELSE r["#"] = to_uppercase(spec)

\* the rows are in ascending order of (Fiscal yrtr, Subj, #, Sec)
Ascending(rows) ==
    \A i \in 1..Len(rows) : \A j \in 1..Len(rows) : i < j => ~RowLess(rows[j], rows[i])

\* C25: the rows filter_data returns are rows of the table it was given, each
\* satisfies every predicate the request names, and they are sorted ascending
\* by (Fiscal yrtr, Subj, #, Sec).
FilterSoundAndSorted ==
    Served =>
        /\ \A i \in 1..Len(response) :
              /\ \E j \in 1..Len(table) : response[i] = table[j]
              /\ SatisfiesSubject(response[i], to_lowercase(route_args(url).subject))
              /\ \A k \in 1..Len(RequestSpecs) :
                    SatisfiesSpec(response[i], to_lowercase(route_args(url).subject),
                                  RequestSpecs[k])
        /\ Ascending(response)

\* a request with a subject and a course-number prefix was answered with
\* several rows that the table holds in another order
FilterWitness ==
    /\ wpc = "served"
    /\ url = "/phys/10_"
    /\ Len(response) >= 2
    /\ ~Ascending(table)

\* C29: a form that passes validate with a term selected is answered, through
\* the URL build_url makes of it, only with rows of the selected term, the
\* upcoming term that build_url leaves out of the URL included.
FormTermAgreement ==
    (wpc = "served_form" /\ form[1].term # "") =>
        \A i \in 1..Len(response) : response[i]["Fiscal yrtr"] = StrToNat(form[1].term)

=============================================================================
